---- MODULE Spec2Model ----
(***************************************************************************)
(* Model of package retry (panyc0217/retry): Config.Do, the retry loop,    *)
(* the Break marker and the delay strategies the loop consults.            *)
(*                                                                         *)
(* One run of Do is one sequential control flow; `runs` is the set of runs *)
(* that execute on the one shared *Config.  The statements of Do take no   *)
(* time; time passes only while a run is blocked in the select of lines    *)
(* 168-173.  A context is cancelled by the environment at any moment.      *)
(***************************************************************************)
EXTENDS Integers, Sequences, FiniteSets, TLC

VARIABLES
    runs,       \* the runs of Do executing on the shared Config
    fnResults,  \* the values the operation fn may return
    config0,    \* the Config as NewConfig built it (before any Do)
    config,     \* the shared Config (fields RetryTimes, OnRetry, OnFailed, DelayStrategy)
    pc,         \* position of each run in Do
    n,          \* local n of each run (line 141)
    err,        \* local err of each run (lines 147-151)
    ret,        \* value returned by each run
    retLine,    \* the return statement each run left by (0 while running)
    ctxErr,     \* ctx.Err() of each run's context
    cancelAt,   \* where the run was (pc, n) when its context was cancelled
    rem,        \* time left on the timer of time.After
    waited,     \* time each run spent blocked in the select
    trace,      \* calls made by each run, in order
    results,    \* values returned by fn to each run, in order
    reads,      \* Config fields each run has read
    writes,     \* Config fields each run has written
    calc        \* a delay strategy under construction or called on its own

vars == <<runs, fnResults, config0, config, pc, n, err, ret, retLine, ctxErr,
          cancelAt, rem, waited, trace, results, reads, writes, calc>>

----------------------------------------------------------------------------
\* Bounds

MaxTimes == 2        \* largest RetryTimes
MaxBreak == 2        \* deepest nesting of Break
MaxDelay == 2        \* longest delay, in ticks
PairTimes == 1       \* largest RetryTimes when two runs share the Config

MaxAttempt == 33     \* largest attempt index a strategy is called with on its own
MaxRand == 4         \* largest offset drawn from the random source

Max(a, b) == IF a >= b THEN a ELSE b

----------------------------------------------------------------------------
\* time.Duration is an int64.  A value is its two's-complement bit pattern,
\* held as 16-bit limbs, least significant first; arithmetic wraps at 2^64
\* as Go's does.

Limb == 65536

Int64Limbs == 4

\* the limbs of a small k, 0 <= k < Limb
Small(k, len) == [i \in 1..len |-> IF i = 1 THEN k ELSE 0]

RECURSIVE MulCarry(_, _, _, _)
MulCarry(x, m, i, c) ==
    IF i > Len(x) THEN <<>>
    ELSE LET t == x[i] * m + c
         IN  <<t % Limb>> \o MulCarry(x, m, i + 1, t \div Limb)

\* x * m for a small m >= 0; the carry out of the top limb is lost
Mul(x, m) == MulCarry(x, m, 1, 0)

RECURSIVE AddCarry(_, _, _, _)
AddCarry(x, y, i, c) ==
    IF i > Len(x) THEN <<>>
    ELSE LET t == x[i] + y[i] + c
         IN  <<t % Limb>> \o AddCarry(x, y, i + 1, t \div Limb)

\* x + y; the carry out of the top limb is lost
Add(x, y) == AddCarry(x, y, 1, 0)

\* -x
Neg(x) == Add([i \in 1..Len(x) |-> Limb - 1 - x[i]], Small(1, Len(x)))

\* x - y
Sub(x, y) == Add(x, Neg(y))

\* x < 0
IsNeg(x) == x[Len(x)] >= Limb \div 2

RECURSIVE ULessFrom(_, _, _)
ULessFrom(x, y, i) ==
    IF i = 0 THEN FALSE
    ELSE IF x[i] # y[i] THEN x[i] < y[i] ELSE ULessFrom(x, y, i - 1)

\* x < y as unsigned numbers
ULess(x, y) == ULessFrom(x, y, Len(x))

\* x < y as signed numbers
Less(x, y) == IF IsNeg(x) # IsNeg(y) THEN IsNeg(x) ELSE ULess(x, y)

RECURSIVE Pow2(_)
Pow2(k) == IF k = 0 THEN 1 ELSE 2 * Pow2(k - 1)

\* x << k: the bits move up k places, those moved past the top are lost, so
\* a shift by the width or more leaves 0
Shl(x, k) ==
    LET y == Mul(x, Pow2(k % 16))
        q == k \div 16
    IN  [i \in 1..Len(x) |-> IF i > q THEN y[i - q] ELSE 0]

\* the Duration of a small integer k, -Limb < k < Limb
Dur(k) == IF k >= 0 THEN Small(k, Int64Limbs) ELSE Neg(Small(-k, Int64Limbs))

MaxInt64 == [i \in 1..Int64Limbs |-> IF i = Int64Limbs THEN Limb \div 2 - 1 ELSE Limb - 1]

----------------------------------------------------------------------------
\* Errors.  An error value is a base error wrapped in brk layers of
\* breakError; the nil interface is base "nil" wrapped in nothing.

NilErr == [brk |-> 0, base |-> "nil"]

testErr == [brk |-> 0, base |-> "e1"]

ErrRateLimit == [brk |-> 0, base |-> "e2"]

Canceled == [brk |-> 0, base |-> "Canceled"]

DeadlineExceeded == [brk |-> 0, base |-> "DeadlineExceeded"]

CtxErrors == {Canceled, DeadlineExceeded}

\* Break(err) wraps any error, nil included (lines 119-121)
Break(e) == [e EXCEPT !.brk = @ + 1]

\* everything an operation can return: nil, plain errors, Break of those
OpErrors == {[brk |-> k, base |-> b] : k \in 0..MaxBreak, b \in {"nil", "e1", "e2"}}

\* a plain, un-marked failure
Retryable(e) == e.brk = 0 /\ e.base # "nil"

\* err.(breakError): the ok of the type assertion (line 149)
IsBreakError(e) == e.brk > 0

\* v.error: the error embedded in a breakError (line 151)
InnerKeepMarker(e) == e

Inner(e) == [e EXCEPT !.brk = @ - 1]

----------------------------------------------------------------------------
\* Delay strategies

NilStrategy == [kind |-> "nil", a |-> 0]

\* FixedDelay(delay) (lines 39-43)
FixedDelay(d) == [kind |-> "fixed", a |-> d]

\* customDelay of the README (lines 275-280): the delay depends on the error
CustomDelay == [kind |-> "custom", a |-> 0]

Delays == -1..MaxDelay

Strategies == {NilStrategy, CustomDelay} \cup {FixedDelay(d) : d \in Delays}

\* the durations a call strategy(k, e) can return
StrategyResults(s, k, e) ==
    CASE s.kind = "fixed" -> {s.a}
      [] s.kind = "custom" -> {IF e = ErrRateLimit THEN MaxDelay ELSE 1}

\* LinearDelay(baseDelay, maxDelay) called with attempt k (lines 46-54)
LinearDelay(baseDelay, maxDelay, k) ==
    LET delay == Mul(baseDelay, k + 1)
    IN  IF Less(maxDelay, delay) \/ IsNeg(delay) THEN maxDelay ELSE delay

\* ExponentialDelay(baseDelay, maxDelay) called with attempt k (lines 57-65)
ExponentialDelay(baseDelay, maxDelay, k) ==
    LET delay == Shl(baseDelay, k)
    IN  IF Less(maxDelay, delay) \/ IsNeg(delay) THEN maxDelay ELSE delay

\* RandomDelay(minDelay, maxDelay): the bounds its closure captures (lines 68-74)
RandomMin(minDelay) == IF IsNeg(minDelay) THEN Dur(0) ELSE minDelay

RandomMax(minDelay, maxDelay) ==
    IF Less(maxDelay, RandomMin(minDelay)) THEN RandomMin(minDelay) ELSE maxDelay

\* int64(maxDelay - minDelay + 1), the argument of rand.Int63n (line 78)
RandomSpan(lo, hi) == Add(Sub(hi, lo), Dur(1))

\* rand.Int63n(span) panics unless span > 0
Int63nPanics(span) == IsNeg(span) \/ span = Dur(0)

----------------------------------------------------------------------------
\* Config

\* NewConfig(opts...): a zero Config with the options applied (lines 107-113)
NewConfig(times, onRetry, onFailed, strategy) ==
    [RetryTimes |-> times, OnRetry |-> onRetry, OnFailed |-> onFailed,
     DelayStrategy |-> strategy]

Configs(times, strategies) ==
    {NewConfig(t, r, f, s) : t \in times, r \in {"nil", "user"},
                             f \in {"nil", "user"}, s \in strategies}

----------------------------------------------------------------------------
\* Pieces of Do

\* if n >= config.RetryTimes { breakRetry = true } (lines 160-162)
ExhaustedOffByOne(k, times) == k > times

ExhaustedEarly(k, times) == k + 1 >= times

Exhausted(k, times) == k >= times

\* if breakRetry { return err } (lines 160-166)
StopIgnoringBreak(brk, k, times) == Exhausted(k, times)

Stop(brk, k, times) == brk \/ Exhausted(k, times)

\* if err := ctx.Err(); err != nil (line 125)
StartCancelledNever(ce) == FALSE

StartCancelled(ce) == ce # NilErr

\* the timer of time.After(d): a delay of zero or less has elapsed at once
TimerTicksPlusOne(d) == Max(d, 0) + 1

TimerTicks(d) == Max(d, 0)

\* the cases of the select that can proceed when it is entered (lines 168-173)
ReadyCases(d, ce) ==
    (IF TimerTicks(d) = 0 THEN {"timer"} ELSE {}) \cup (IF ce # NilErr THEN {"done"} ELSE {})

\* case <-ctx.Done(): return ctx.Err() (lines 171-172)
CancelReturnLastErr(ce, e) == e

CancelReturn(ce, e) == ce

Ev(kind, k, e, d) == [ev |-> kind, n |-> k, err |-> e, d |-> d]

Append2Swapped(s, a, b) == Append(Append(s, b), a)

Append2(s, a, b) == Append(Append(s, a), b)

----------------------------------------------------------------------------
\* Initial states

NoCalc ==
    [stage |-> "idle", kind |-> "none", a |-> Dur(0), b |-> Dur(0),
     lo |-> Dur(0), hi |-> Dur(0), n |-> 0, out |-> Dur(0)]

\* the durations the strategies are built from: small ones of either sign,
\* 2^32 ns (about 4 s), 2^62 ns and the largest Duration
DurInputs == {Dur(-2), Dur(0), Dur(1), Dur(3), Shl(Dur(1), 32), Shl(Dur(1), 62), MaxInt64}

InitRun(rs) ==
    /\ runs = rs
    /\ config = config0
    /\ pc = [r \in rs |-> "start"]
    /\ n = [r \in rs |-> 0]
    /\ err = [r \in rs |-> NilErr]
    /\ ret = [r \in rs |-> NilErr]
    /\ retLine = [r \in rs |-> 0]
    /\ ctxErr = [r \in rs |-> NilErr]
    /\ cancelAt = [r \in rs |-> [pc |-> "never", n |-> 0]]
    /\ rem = [r \in rs |-> 0]
    /\ waited = [r \in rs |-> 0]
    /\ trace = [r \in rs |-> <<>>]
    /\ results = [r \in rs |-> <<>>]
    /\ reads = [r \in rs |-> {}]
    /\ writes = [r \in rs |-> {}]

\* one run of Do on a Config of its own
Init ==
    /\ config0 \in Configs(-1..MaxTimes, Strategies)
    /\ fnResults = OpErrors
    /\ calc = NoCalc
    /\ InitRun({1})

\* two runs of Do started concurrently on one shared Config; nothing orders
\* the statements of one run against the other's.  The fields are single
\* words, so a read that races with a write yields the value before or after
\* it: the interleavings of the field accesses below are those outcomes.
InitPair ==
    /\ config0 \in Configs(0..PairTimes, {NilStrategy, FixedDelay(1)})
    /\ fnResults = {NilErr, testErr}
    /\ calc = NoCalc
    /\ InitRun({1, 2})

\* a strategy built by LinearDelay, ExponentialDelay or RandomDelay and called
\* on its own; no run of Do is involved.  The strategies ignore their err
\* argument, which is left out.
InitDelay ==
    /\ config0 = NewConfig(0, "nil", "nil", NilStrategy)
    /\ fnResults = {}
    /\ calc \in {[NoCalc EXCEPT !.stage = "new", !.kind = k, !.a = a, !.b = b] :
                    k \in {"linear", "exponential", "random"},
                    a \in DurInputs, b \in DurInputs}
    /\ InitRun({})

----------------------------------------------------------------------------
\* Actions

\* the environment cancels the run's context (cancel() or the deadline)
Cancel(r, ce) ==
    /\ pc[r] # "done"
    /\ ctxErr[r] = NilErr
    /\ ctxErr' = [ctxErr EXCEPT ![r] = ce]
    /\ cancelAt' = [cancelAt EXCEPT ![r] = [pc |-> pc[r], n |-> n[r]]]
    /\ UNCHANGED <<calc, runs, fnResults, config0, config, pc, n, err, ret, retLine,
                   rem, waited, trace, results, reads, writes>>

\* lines 125-127
Start(r) ==
    /\ pc[r] = "start"
    /\ IF StartCancelled(ctxErr[r])
       THEN /\ pc' = [pc EXCEPT ![r] = "done"]
            /\ ret' = [ret EXCEPT ![r] = ctxErr[r]]
            /\ retLine' = [retLine EXCEPT ![r] = 126]
       ELSE /\ pc' = [pc EXCEPT ![r] = "defOnRetry"]
            /\ UNCHANGED <<ret, retLine>>
    /\ UNCHANGED <<calc, runs, fnResults, config0, config, n, err, ctxErr, cancelAt,
                   rem, waited, trace, results, reads, writes>>

\* if config.<field> == nil { config.<field> = <default> }
DefaultField(r, at, field, nil, default, next) ==
    /\ pc[r] = at
    /\ reads' = [reads EXCEPT ![r] = @ \cup {field}]
    /\ IF config[field] = nil
       THEN /\ config' = [config EXCEPT ![field] = default]
            /\ writes' = [writes EXCEPT ![r] = @ \cup {field}]
       ELSE UNCHANGED <<config, writes>>
    /\ pc' = [pc EXCEPT ![r] = next]
    /\ UNCHANGED <<calc, runs, fnResults, config0, n, err, ret, retLine, ctxErr,
                   cancelAt, rem, waited, trace, results>>

\* lines 129-131
DefaultOnRetry(r) == DefaultField(r, "defOnRetry", "OnRetry", "nil", "noop", "defOnFailed")

\* lines 133-135
DefaultOnFailed(r) == DefaultField(r, "defOnFailed", "OnFailed", "nil", "noop", "defDelay")

\* lines 137-139
DefaultDelayStrategyOne(r) ==
    DefaultField(r, "defDelay", "DelayStrategy", NilStrategy, FixedDelay(1), "loop")

DefaultDelayStrategy(r) ==
    DefaultField(r, "defDelay", "DelayStrategy", NilStrategy, FixedDelay(0), "loop")

\* lines 143-147: the retry observer, then the call of fn
Attempt(r) ==
    /\ pc[r] = "loop"
    /\ IF n[r] > 0
       THEN /\ trace' = [trace EXCEPT ![r] =
                            Append2(@, Ev("onRetry", n[r], NilErr, 0),
                                       Ev("fn", n[r], NilErr, 0))]
            /\ reads' = [reads EXCEPT ![r] = @ \cup {"OnRetry"}]
       ELSE /\ trace' = [trace EXCEPT ![r] = Append(@, Ev("fn", n[r], NilErr, 0))]
            /\ UNCHANGED reads
    /\ pc' = [pc EXCEPT ![r] = "infn"]
    /\ UNCHANGED <<calc, runs, fnResults, config0, config, n, err, ret, retLine,
                   ctxErr, cancelAt, rem, waited, results, writes>>

\* lines 147-166: fn returns e; classify it, report it, decide whether to stop
FnReturn(r, e) ==
    /\ pc[r] = "infn"
    /\ results' = [results EXCEPT ![r] = Append(@, e)]
    /\ LET breakRetry == IsBreakError(e)
           err1 == IF breakRetry THEN Inner(e) ELSE e
       IN  IF err1 = NilErr
           THEN /\ pc' = [pc EXCEPT ![r] = "done"]
                /\ ret' = [ret EXCEPT ![r] = NilErr]
                /\ retLine' = [retLine EXCEPT ![r] = 155]
                /\ UNCHANGED <<err, trace, reads>>
           ELSE /\ err' = [err EXCEPT ![r] = err1]
                /\ trace' = [trace EXCEPT ![r] = Append(@, Ev("onFailed", n[r], err1, 0))]
                /\ reads' = [reads EXCEPT ![r] = @ \cup {"OnFailed", "RetryTimes"}]
                /\ IF Stop(breakRetry, n[r], config.RetryTimes)
                   THEN /\ pc' = [pc EXCEPT ![r] = "done"]
                        /\ ret' = [ret EXCEPT ![r] = err1]
                        /\ retLine' = [retLine EXCEPT ![r] = 165]
                   ELSE /\ pc' = [pc EXCEPT ![r] = "select"]
                        /\ UNCHANGED <<ret, retLine>>
    /\ UNCHANGED <<calc, runs, fnResults, config0, config, n, ctxErr, cancelAt, rem,
                   waited, writes>>

\* lines 168-169: the select is entered: the strategy is called, the timer
\* started, and a case that can proceed is chosen, or the run blocks
Select(r, d, c) ==
    /\ pc[r] = "select"
    /\ d \in StrategyResults(config.DelayStrategy, n[r], err[r])
    /\ trace' = [trace EXCEPT ![r] = Append(@, Ev("delay", n[r], err[r], d))]
    /\ reads' = [reads EXCEPT ![r] = @ \cup {"DelayStrategy"}]
    /\ IF ReadyCases(d, ctxErr[r]) = {}
       THEN /\ c = "block"
            /\ pc' = [pc EXCEPT ![r] = "parked"]
            /\ rem' = [rem EXCEPT ![r] = TimerTicks(d)]
            /\ UNCHANGED <<n, ret, retLine>>
       ELSE /\ c \in ReadyCases(d, ctxErr[r])
            /\ UNCHANGED rem
            /\ IF c = "timer"
               THEN /\ n' = [n EXCEPT ![r] = @ + 1]
                    /\ pc' = [pc EXCEPT ![r] = "loop"]
                    /\ UNCHANGED <<ret, retLine>>
               ELSE /\ pc' = [pc EXCEPT ![r] = "done"]
                    /\ ret' = [ret EXCEPT ![r] = CancelReturn(ctxErr[r], err[r])]
                    /\ retLine' = [retLine EXCEPT ![r] = 172]
                    /\ UNCHANGED n
    /\ UNCHANGED <<calc, runs, fnResults, config0, config, err, ctxErr, cancelAt,
                   waited, results, writes>>

\* a unit of time passes while the run is blocked; when the timer fires the
\* run takes the case of line 169 and increments n (line 170)
Tick(r) ==
    /\ pc[r] = "parked"
    /\ ctxErr[r] = NilErr
    /\ rem[r] > 0
    /\ rem' = [rem EXCEPT ![r] = @ - 1]
    /\ waited' = [waited EXCEPT ![r] = @ + 1]
    /\ IF rem[r] = 1
       THEN /\ n' = [n EXCEPT ![r] = @ + 1]
            /\ pc' = [pc EXCEPT ![r] = "loop"]
       ELSE UNCHANGED <<n, pc>>
    /\ UNCHANGED <<calc, runs, fnResults, config0, config, err, ret, retLine, ctxErr,
                   cancelAt, trace, results, reads, writes>>

\* lines 171-172: the blocked run is woken by ctx.Done()
WakeCancel(r) ==
    /\ pc[r] = "parked"
    /\ ctxErr[r] # NilErr
    /\ pc' = [pc EXCEPT ![r] = "done"]
    /\ ret' = [ret EXCEPT ![r] = CancelReturn(ctxErr[r], err[r])]
    /\ retLine' = [retLine EXCEPT ![r] = 172]
    /\ UNCHANGED <<calc, runs, fnResults, config0, config, n, err, ctxErr, cancelAt,
                   rem, waited, trace, results, reads, writes>>

Next ==
    \E r \in runs :
        \/ \E ce \in CtxErrors : Cancel(r, ce)
        \/ Start(r)
        \/ DefaultOnRetry(r)
        \/ DefaultOnFailed(r)
        \/ DefaultDelayStrategy(r)
        \/ Attempt(r)
        \/ \E e \in fnResults : FnReturn(r, e)
        \/ \E d \in Delays, c \in {"block", "timer", "done"} : Select(r, d, c)
        \/ Tick(r)
        \/ WakeCancel(r)

Spec == Init /\ [][Next]_vars

SpecPair == InitPair /\ [][Next]_vars

\* a step of Do itself: every statement completes, every call of fn, of an
\* observer and of the strategy returns, and every timer fires
RunStep(r) ==
    \/ Start(r)
    \/ DefaultOnRetry(r)
    \/ DefaultOnFailed(r)
    \/ DefaultDelayStrategy(r)
    \/ Attempt(r)
    \/ \E e \in fnResults : FnReturn(r, e)
    \/ \E d \in Delays, c \in {"block", "timer", "done"} : Select(r, d, c)
    \/ Tick(r)
    \/ WakeCancel(r)

\* one run of Do that is always scheduled again; the context may or may not
\* be cancelled
SpecLive == Init /\ [][Next]_vars /\ WF_vars(\E r \in runs : RunStep(r))

engineVars == <<runs, fnResults, config0, config, pc, n, err, ret, retLine, ctxErr,
                cancelAt, rem, waited, trace, results, reads, writes>>

\* LinearDelay(a, b) returns its closure over baseDelay, maxDelay (lines 46-47)
NewLinearDelay ==
    /\ calc.stage = "new" /\ calc.kind = "linear"
    /\ calc' = [calc EXCEPT !.stage = "built", !.lo = calc.a, !.hi = calc.b]
    /\ UNCHANGED engineVars

\* ExponentialDelay(a, b) returns its closure (lines 57-58)
NewExponentialDelay ==
    /\ calc.stage = "new" /\ calc.kind = "exponential"
    /\ calc' = [calc EXCEPT !.stage = "built", !.lo = calc.a, !.hi = calc.b]
    /\ UNCHANGED engineVars

\* RandomDelay(a, b) normalises minDelay, maxDelay and returns its closure
\* (lines 68-75)
NewRandomDelay ==
    /\ calc.stage = "new" /\ calc.kind = "random"
    /\ calc' = [calc EXCEPT !.stage = "built", !.lo = RandomMin(calc.a),
                            !.hi = RandomMax(calc.a, calc.b)]
    /\ UNCHANGED engineVars

\* lines 47-53
CallLinearDelay(k) ==
    /\ calc.stage = "built" /\ calc.kind = "linear"
    /\ calc' = [calc EXCEPT !.stage = "called", !.n = k,
                            !.out = LinearDelay(calc.lo, calc.hi, k)]
    /\ UNCHANGED engineVars

\* lines 58-64
CallExponentialDelay(k) ==
    /\ calc.stage = "built" /\ calc.kind = "exponential"
    /\ calc' = [calc EXCEPT !.stage = "called", !.n = k,
                            !.out = ExponentialDelay(calc.lo, calc.hi, k)]
    /\ UNCHANGED engineVars

\* lines 75-81; v is the number rand.Int63n draws
CallRandomDelay(k, v) ==
    /\ calc.stage = "built" /\ calc.kind = "random"
    /\ IF Less(calc.lo, calc.hi)
       THEN IF Int63nPanics(RandomSpan(calc.lo, calc.hi))
            THEN /\ v = 0
                 /\ calc' = [calc EXCEPT !.stage = "panic", !.n = k]
            ELSE /\ Less(Dur(v), RandomSpan(calc.lo, calc.hi))
                 /\ calc' = [calc EXCEPT !.stage = "called", !.n = k,
                                         !.out = Add(calc.lo, Dur(v))]
       ELSE /\ v = 0
            /\ calc' = [calc EXCEPT !.stage = "called", !.n = k, !.out = calc.lo]
    /\ UNCHANGED engineVars

NextDelay ==
    \/ NewLinearDelay
    \/ NewExponentialDelay
    \/ NewRandomDelay
    \/ \E k \in 0..MaxAttempt : CallLinearDelay(k)
    \/ \E k \in 0..MaxAttempt : CallExponentialDelay(k)
    \/ \E k \in 0..MaxAttempt, v \in 0..MaxRand : CallRandomDelay(k, v)

SpecDelay == InitDelay /\ [][NextDelay]_vars

----------------------------------------------------------------------------
\* Reading a run's history

Last(s) == s[Len(s)]

\* the calls of one kind ("onRetry", "fn", "onFailed", "delay") a run made
Calls(r, kind) == SelectSeq(trace[r], LAMBDA x : x.ev = kind)

\* the attempt indices of a sequence of calls
NsOf(s) == [i \in 1..Len(s) |-> s[i].n]

\* <<a, a+1, ..., b>>
FromTo(a, b) == [i \in 1..(b - a + 1) |-> a + i - 1]

NumCalls(r) == Len(Calls(r, "fn"))

Budget == config0.RetryTimes

\* every call of fn so far returned a plain, un-marked error
AllFailedRetryably(r) == \A i \in 1..Len(results[r]) : Retryable(results[r][i])

RECURSIVE SumDelays(_)
SumDelays(s) == IF s = <<>> THEN 0 ELSE s[1].d + SumDelays(Tail(s))

RECURSIVE SumElapsed(_)
SumElapsed(s) ==
    IF s = <<>> THEN 0 ELSE (IF s[1].d > 0 THEN s[1].d ELSE 0) + SumElapsed(Tail(s))

----------------------------------------------------------------------------
\* C1: with budget b >= 0, no cancellation and an operation that fails
\* retryably on every call, a finished run has invoked the operation b+1
\* times, onFailed with n = 0..b in order and onRetry with n = 1..b in order.
C1_AlwaysFailing ==
    \A r \in runs :
        (pc[r] = "done" /\ Budget >= 0 /\ ctxErr[r] = NilErr /\ AllFailedRetryably(r))
        => /\ NumCalls(r) = Budget + 1
           /\ Len(results[r]) = Budget + 1
           /\ NsOf(Calls(r, "fn")) = FromTo(0, Budget)
           /\ NsOf(Calls(r, "onFailed")) = FromTo(0, Budget)
           /\ NsOf(Calls(r, "onRetry")) = FromTo(1, Budget)

C1_Witness ==
    \E r \in runs :
        /\ pc[r] = "done" /\ Budget = MaxTimes /\ ctxErr[r] = NilErr
        /\ AllFailedRetryably(r) /\ Len(results[r]) = MaxTimes + 1

\* C2 as stated: at most b+1 invocations, and b+1 of them only if every
\* attempt fails, none is terminal and no cancellation occurs.
C2_Original ==
    \A r \in runs :
        Budget >= 0
        => /\ NumCalls(r) <= Budget + 1
           /\ (pc[r] = "done" /\ NumCalls(r) = Budget + 1)
              => (AllFailedRetryably(r) /\ ctxErr[r] = NilErr)

\* C2 (amended): with budget b >= 0 the operation is invoked at most b+1
\* times, and b+1 times only if each of the first b attempts fails with an
\* un-marked error and the run is not ended by cancellation; the last attempt
\* may succeed, be terminal, or have the context cancelled under it.
C2_AtMostBudgetPlusOne ==
    \A r \in runs :
        Budget >= 0
        => /\ NumCalls(r) <= Budget + 1
           /\ NumCalls(r) = Budget + 1
              => /\ Len(results[r]) >= Budget
                 /\ \A i \in 1..Budget : Retryable(results[r][i])
                 /\ retLine[r] \notin {126, 172}

C2_Witness ==
    \E r \in runs :
        /\ pc[r] = "done" /\ Budget = MaxTimes /\ NumCalls(r) = MaxTimes + 1
        /\ Last(results[r]) = NilErr /\ ctxErr[r] # NilErr

\* C3: a Break-marked result on attempt k ends the run at that attempt, for
\* any k and any remaining budget: it is the last call of fn, no onRetry and
\* no delay strategy call follows it, and Do returns the error inside the
\* marker (nil for Break(nil)).
C3_BreakEndsRun ==
    \A r \in runs : \A i \in 1..Len(results[r]) :
        results[r][i].brk > 0
        => /\ pc[r] = "done"
           /\ i = Len(results[r])
           /\ NumCalls(r) = i
           /\ n[r] = i - 1
           /\ \A j \in 1..Len(trace[r]) :
                  /\ trace[r][j].ev = "onRetry" => trace[r][j].n <= i - 1
                  /\ trace[r][j].ev = "delay" => trace[r][j].n < i - 1
           /\ Last(trace[r]).ev \in {"fn", "onFailed"}
           /\ ret[r] = [brk |-> results[r][i].brk - 1, base |-> results[r][i].base]
           /\ (results[r][i] = [brk |-> 1, base |-> "nil"] => ret[r] = NilErr)

C3_Witness ==
    \E r \in runs :
        /\ pc[r] = "done" /\ Len(results[r]) = 2 /\ Budget = MaxTimes
        /\ Last(results[r]).brk = 1 /\ Last(results[r]).base = "e1"

\* C4: when the context is already cancelled at the call of Do, fn, onRetry,
\* onFailed and the delay strategy are never invoked and Do returns ctx.Err().
C4_CancelledBeforeStart ==
    \A r \in runs :
        (cancelAt[r].pc = "start" /\ pc[r] # "start")
        => /\ pc[r] = "done"
           /\ trace[r] = <<>>
           /\ results[r] = <<>>
           /\ ret[r] = ctxErr[r]
           /\ ret[r] \in CtxErrors

C4_Witness ==
    \E r \in runs :
        /\ cancelAt[r].pc = "start" /\ pc[r] = "done" /\ Budget = MaxTimes
        /\ config0.OnRetry = "user" /\ ret[r] = DeadlineExceeded

\* C5: when the context is cancelled in the wait that follows a retryable
\* failure with budget left, the delay for that attempt being positive and
\* not yet elapsed, Do returns ctx.Err() and not the last error of the
\* operation, and neither fn nor onRetry is invoked again.
CancelledInWait(r) ==
    /\ cancelAt[r].pc \in {"select", "parked"}
    /\ \E j \in 1..Len(trace[r]) :
           /\ trace[r][j].ev = "delay"
           /\ trace[r][j].n = cancelAt[r].n
           /\ trace[r][j].d > 0

C5_CancelDuringWait ==
    \A r \in runs :
        CancelledInWait(r)
        => /\ pc[r] \in {"parked", "done"}
           /\ Last(trace[r]).ev = "delay"
           /\ n[r] = cancelAt[r].n
           /\ NumCalls(r) = n[r] + 1
           /\ Len(Calls(r, "onRetry")) = n[r]
           /\ pc[r] = "done"
              => /\ ret[r] = ctxErr[r]
                 /\ ret[r] \in CtxErrors
                 /\ ret[r] # err[r]

C5_Witness ==
    \E r \in runs :
        /\ CancelledInWait(r) /\ cancelAt[r].pc = "parked" /\ pc[r] = "done"
        /\ n[r] = 1 /\ waited[r] >= 2 /\ err[r] = ErrRateLimit

\* C6: when the budget is exhausted by an un-marked error, Do returns the
\* error of that last attempt unchanged; the errors of the earlier attempts
\* went to onFailed only.
C6_LastErrorReturned ==
    \A r \in runs :
        (pc[r] = "done" /\ retLine[r] = 165 /\ Retryable(Last(results[r])))
        => /\ ret[r] = Last(results[r])
           /\ n[r] >= Budget
           /\ Len(results[r]) = n[r] + 1
           /\ [i \in 1..Len(results[r]) |-> Calls(r, "onFailed")[i].err] = results[r]

C6_Witness ==
    \E r \in runs :
        /\ pc[r] = "done" /\ retLine[r] = 165 /\ Len(results[r]) = MaxTimes + 1
        /\ results[r][1] = testErr /\ Last(results[r]) = ErrRateLimit /\ ret[r] = ErrRateLimit

\* the operation failed retryably on every call but the last, which returned
\* nil, and the context was never cancelled
SucceededOnLast(r) ==
    /\ pc[r] = "done"
    /\ ctxErr[r] = NilErr
    /\ results[r] # <<>>
    /\ Last(results[r]) = NilErr
    /\ \A i \in 1..(Len(results[r]) - 1) : Retryable(results[r][i])

\* the strategy was consulted once for each n = 0..k-2, with that attempt's error
ConsultedOncePerRetry(r) ==
    LET k == Len(results[r])
        ds == Calls(r, "delay")
    IN  /\ NsOf(ds) = FromTo(0, k - 2)
        /\ \A i \in 1..Len(ds) : ds[i].err = results[r][i]

\* C7 as stated: the time waited is the sum of the strategy's results.
C7_Original ==
    \A r \in runs :
        SucceededOnLast(r)
        => /\ ConsultedOncePerRetry(r)
           /\ waited[r] = SumDelays(Calls(r, "delay"))

\* C7 (amended): for an operation that fails retryably on calls 1..k-1 and
\* succeeds on call k <= b+1, with no cancellation, the strategy is consulted
\* exactly once for each n = 0..k-2 and the time waited is the sum over those
\* n of max(delayStrategy(n, err_n), 0): a negative delay counts as no wait.
C7_TotalDelay ==
    \A r \in runs :
        SucceededOnLast(r)
        => /\ ConsultedOncePerRetry(r)
           /\ Len(results[r]) <= Max(Budget, 0) + 1
           /\ waited[r] = SumElapsed(Calls(r, "delay"))

C7_Witness ==
    \E r \in runs :
        /\ SucceededOnLast(r) /\ Len(results[r]) = MaxTimes + 1
        /\ config0.DelayStrategy = CustomDelay
        /\ results[r][1] = ErrRateLimit /\ results[r][2] = testErr
        /\ waited[r] = MaxDelay + 1

\* C8 as stated: every call of the strategy for attempt n is followed by
\* invocation n+1 of the operation.
C8_Original ==
    \A r \in runs : \A j \in 1..Len(trace[r]) :
        (pc[r] = "done" /\ trace[r][j].ev = "delay")
        => /\ trace[r][j].n < Budget
           /\ \E i \in (j + 1)..Len(trace[r]) :
                  trace[r][i].ev = "fn" /\ trace[r][i].n = trace[r][j].n + 1

\* C8 (amended): the strategy is never called after a budget-exhausting or a
\* terminal failure, and each call delayStrategy(n, err) is followed by
\* onRetry(n+1) and invocation n+1 of the operation unless the wait it starts
\* is ended by cancellation, in which case Do returns ctx.Err().
C8_DelayOnlyBeforeRetry ==
    \A r \in runs : \A j \in 1..Len(trace[r]) :
        trace[r][j].ev = "delay"
        => /\ trace[r][j].n < Budget
           /\ j > 1 /\ trace[r][j - 1].ev = "onFailed"
           /\ trace[r][j - 1].n = trace[r][j].n
           /\ Retryable(results[r][trace[r][j].n + 1])
           /\ j < Len(trace[r])
              => /\ j + 2 <= Len(trace[r])
                 /\ trace[r][j + 1].ev = "onRetry"
                 /\ trace[r][j + 1].n = trace[r][j].n + 1
                 /\ trace[r][j + 2].ev = "fn"
                 /\ trace[r][j + 2].n = trace[r][j].n + 1
           /\ (j = Len(trace[r]) /\ pc[r] = "done")
              => (retLine[r] = 172 /\ ret[r] = ctxErr[r] /\ ret[r] \in CtxErrors)

C8_Witness ==
    \E r \in runs :
        /\ pc[r] = "done" /\ retLine[r] = 172 /\ Len(Calls(r, "delay")) = 2
        /\ Last(trace[r]).ev = "delay"

\* C9: a run of Do leaves every field of its Config as NewConfig built it.
C9_ConfigNotMutated == config = config0

\* C10: two runs on one shared Config never conflict on a field (one writing
\* it while the other reads or writes it; nothing orders the two runs), and
\* each run counts its own attempts.
C10_ConcurrentRunsSafe ==
    \A r \in runs : \A q \in runs \ {r} :
        /\ writes[r] \cap (reads[q] \cup writes[q]) = {}
        /\ NumCalls(r) \in {n[r], n[r] + 1}
        /\ NsOf(Calls(r, "fn")) = FromTo(0, NumCalls(r) - 1)

----------------------------------------------------------------------------
\* Mathematical integers, to state what a strategy should return: a sign
\* and a magnitude of WideLimbs limbs, wide enough that no product or shift
\* of the inputs above loses a carry.

WideLimbs == 9

Wide(x) ==
    LET m == IF IsNeg(x) THEN Neg(x) ELSE x
    IN  [neg |-> IsNeg(x), mag |-> [i \in 1..WideLimbs |-> IF i <= Len(x) THEN m[i] ELSE 0]]

\* w * m, m >= 1
WideTimes(w, m) == [neg |-> w.neg, mag |-> Mul(w.mag, m)]

\* w * 2^k
WideShl(w, k) == [neg |-> w.neg, mag |-> Shl(w.mag, k)]

WideLess(a, b) ==
    IF a.neg # b.neg THEN a.neg
    ELSE IF a.neg THEN ULess(b.mag, a.mag) ELSE ULess(a.mag, b.mag)

WideMin(a, b) == IF WideLess(b, a) THEN b ELSE a

\* C11: ExponentialDelay(base, max) called with attempt n returns
\* min(base * 2^n, max), base * 2^n being the mathematical product.
C11_ExponentialIsMin ==
    (calc.stage = "called" /\ calc.kind = "exponential")
    => Wide(calc.out) = WideMin(WideShl(Wide(calc.a), calc.n), Wide(calc.b))

\* C12: LinearDelay(base, max) called with attempt n returns
\* min(base * (n+1), max), base * (n+1) being the mathematical product.
C12_LinearIsMin ==
    (calc.stage = "called" /\ calc.kind = "linear")
    => Wide(calc.out) = WideMin(WideTimes(Wide(calc.a), calc.n + 1), Wide(calc.b))

WideLeq(a, b) == ~WideLess(b, a)

\* w + v for w >= 0 and a small v >= 0
WidePlus(w, v) == [neg |-> FALSE, mag |-> Add(w.mag, Small(v, WideLimbs))]

\* a call of the RandomDelay strategy can return min' + v
CanReturn(v) ==
    ENABLED (/\ \E u \in 0..MaxRand : CallRandomDelay(0, u)
             /\ calc'.stage = "called"
             /\ Wide(calc'.out) = WidePlus(Wide(calc.lo), v))

\* the parts of C13 other than that the call returns at all
RandomNormalisedAndInRange ==
    (calc.kind = "random" /\ calc.stage # "new")
    => /\ Wide(calc.lo) = (IF WideLess(Wide(calc.a), Wide(Dur(0))) THEN Wide(Dur(0)) ELSE Wide(calc.a))
       /\ Wide(calc.hi) = (IF WideLess(Wide(calc.b), Wide(calc.lo)) THEN Wide(calc.lo) ELSE Wide(calc.b))
       /\ calc.stage = "called"
          => /\ WideLeq(Wide(calc.lo), Wide(calc.out))
             /\ WideLeq(Wide(calc.out), Wide(calc.hi))
             /\ calc.lo = calc.hi => calc.out = calc.lo
       /\ calc.stage = "built"
          => \A v \in 0..MaxRand :
                 WideLeq(WidePlus(Wide(calc.lo), v), Wide(calc.hi)) => CanReturn(v)

\* C13: RandomDelay(min, max) keeps min' = max(min, 0) and max' = max(max, min');
\* every call returns a duration in [min', max'], every value of the interval
\* can be returned, and the value is min' when min' = max'.
C13_RandomInRange ==
    /\ RandomNormalisedAndInRange
    /\ calc.kind = "random" => calc.stage # "panic"

----------------------------------------------------------------------------
\* the onFailed calls a run made for attempt k
FailedCalls(r, k) == SelectSeq(trace[r], LAMBDA x : x.ev = "onFailed" /\ x.n = k)

\* C14: when attempt k returns a Break-marked result, onFailed(k, inner) is
\* invoked exactly once if the error inside the marker is non-nil and not at
\* all if it is nil; Do returns the error inside the marker either way.
C14_OnFailedAfterBreak ==
    \A r \in runs : \A i \in 1..Len(results[r]) :
        results[r][i].brk > 0
        => LET inner == [brk |-> results[r][i].brk - 1, base |-> results[r][i].base]
           IN  /\ pc[r] = "done"
               /\ ret[r] = inner
               /\ inner = NilErr => FailedCalls(r, i - 1) = <<>>
               /\ inner # NilErr => FailedCalls(r, i - 1) = <<Ev("onFailed", i - 1, inner, 0)>>

C14_Witness ==
    \E r \in runs :
        /\ pc[r] = "done" /\ Len(results[r]) = 2
        /\ Last(results[r]) = [brk |-> 1, base |-> "nil"]
        /\ Len(Calls(r, "onFailed")) = 1 /\ ret[r] = NilErr

\* C15: no error that Do returns or hands to onFailed or to the delay
\* strategy carries the Break marker; a marker inside a marker is removed
\* too, so Break(Break(nil)) is success and Break(Break(e)) yields e.
C15_NoMarkerEscapes ==
    \A r \in runs :
        /\ ret[r].brk = 0
        /\ \A j \in 1..Len(trace[r]) : trace[r][j].err.brk = 0
        /\ (pc[r] = "done" /\ results[r] # <<>> /\ Last(results[r]).brk > 0)
           => ret[r] = [brk |-> 0, base |-> Last(results[r]).base]

\* the calls that may directly follow call x in a run
MayFollow(x, y) ==
    CASE x.ev = "onRetry" -> y.ev = "fn" /\ y.n = x.n
      [] x.ev = "fn" -> y.ev = "onFailed" /\ y.n = x.n
      [] x.ev = "onFailed" -> y.ev = "delay" /\ y.n = x.n /\ y.err = x.err
      [] x.ev = "delay" -> y.ev = "onRetry" /\ y.n = x.n + 1

\* C16: the calls of attempt k come in the order onRetry(k) (k > 0 only), fn,
\* onFailed(k, err) (failed attempts only), delayStrategy(k, err) (only for
\* k < RetryTimes and a failure that is not terminal); attempt k+1 follows
\* attempt k, the first attempt is attempt 0, and a run that returns an
\* error of the operation has reported it to onFailed last.
C16_EventOrder ==
    \A r \in runs :
        /\ trace[r] # <<>> => (trace[r][1].ev = "fn" /\ trace[r][1].n = 0)
        /\ \A j \in 1..(Len(trace[r]) - 1) : MayFollow(trace[r][j], trace[r][j + 1])
        /\ \A j \in 1..Len(trace[r]) :
               /\ trace[r][j].ev = "onRetry" => trace[r][j].n > 0
               /\ trace[r][j].ev = "onFailed"
                  => /\ Len(results[r]) > trace[r][j].n
                     /\ results[r][trace[r][j].n + 1] # NilErr
                     /\ results[r][trace[r][j].n + 1] # [brk |-> 1, base |-> "nil"]
               /\ trace[r][j].ev = "delay"
                  => /\ trace[r][j].n < Budget
                     /\ results[r][trace[r][j].n + 1].brk = 0
        /\ \A i \in 1..Len(results[r]) :
               (results[r][i] # NilErr /\ results[r][i] # [brk |-> 1, base |-> "nil"])
               => Len(FailedCalls(r, i - 1)) = 1
        /\ trace[r] # <<>> => n[r] \in {Last(trace[r]).n, Last(trace[r]).n + 1}
        /\ (pc[r] = "done" /\ retLine[r] = 165)
           => Last(trace[r]) = Ev("onFailed", n[r], ret[r], 0)

C16_Witness ==
    \E r \in runs :
        /\ pc[r] = "done" /\ retLine[r] = 165
        /\ NsOf(trace[r]) = <<0, 0, 0, 1, 1, 1, 1, 2, 2, 2>>
        /\ Len(trace[r]) = 10 /\ trace[r][8].ev = "onRetry" /\ trace[r][7].ev = "delay"

\* the context was cancelled while call k+1 of fn was in flight
CancelledInFlight(r) == cancelAt[r].pc = "infn"

\* C17: once the context is cancelled no new call of fn begins: if it is
\* cancelled while a call of fn is in flight and that call fails retryably
\* with budget left, Do returns ctx.Err() without calling fn or onRetry again,
\* whatever delay the strategy (or the default strategy) returns.
C17_NoAttemptAfterCancel ==
    \A r \in runs :
        CancelledInFlight(r)
        => /\ NumCalls(r) = cancelAt[r].n + 1
           /\ Len(Calls(r, "onRetry")) = cancelAt[r].n
           /\ (/\ pc[r] = "done"
               /\ Retryable(Last(results[r]))
               /\ cancelAt[r].n < Budget)
              => (ret[r] = ctxErr[r] /\ ret[r] \in CtxErrors)

\* C18: cancellation never overrides the verdict of the attempt that ends
\* the run: if the context is cancelled while a call of fn is in flight and
\* that call returns nil, a Break-marked result, or fails on the attempt that
\* exhausts the budget, Do returns that attempt's outcome, not ctx.Err().
C18_VerdictWins ==
    \A r \in runs :
        (/\ CancelledInFlight(r)
         /\ Len(results[r]) = cancelAt[r].n + 1)
        => LET e == results[r][cancelAt[r].n + 1]
           IN  /\ e = NilErr => (pc[r] = "done" /\ ret[r] = NilErr)
               /\ e.brk > 0
                  => (pc[r] = "done" /\ ret[r] = [brk |-> e.brk - 1, base |-> e.base])
               /\ (Retryable(e) /\ cancelAt[r].n >= Budget)
                  => (pc[r] = "done" /\ ret[r] = e)
               /\ (e = NilErr \/ e.brk > 0 \/ cancelAt[r].n >= Budget)
                  => (ret[r] \notin CtxErrors /\ retLine[r] \in {155, 165})

C18_Witness ==
    \E r \in runs :
        /\ CancelledInFlight(r) /\ cancelAt[r].n = MaxTimes /\ Budget = MaxTimes
        /\ pc[r] = "done" /\ ret[r] = ErrRateLimit /\ ctxErr[r] = Canceled

----------------------------------------------------------------------------
\* The four outcomes of a run

Success(r) == results[r] # <<>> /\ Last(results[r]) = NilErr /\ ret[r] = NilErr

TerminalFailure(r) ==
    /\ results[r] # <<>>
    /\ Last(results[r]).brk > 0
    /\ ret[r] = [brk |-> Last(results[r]).brk - 1, base |-> Last(results[r]).base]

BudgetExhausted(r) ==
    /\ results[r] # <<>>
    /\ Retryable(Last(results[r]))
    /\ Len(results[r]) >= Budget + 1
    /\ ret[r] = Last(results[r])

Cancellation(r) == ret[r] \in CtxErrors /\ ret[r] = ctxErr[r]

OutcomesOf(r) ==
    (IF Success(r) THEN {"success"} ELSE {})
    \cup (IF TerminalFailure(r) THEN {"terminal"} ELSE {})
    \cup (IF BudgetExhausted(r) THEN {"exhausted"} ELSE {})
    \cup (IF Cancellation(r) THEN {"cancelled"} ELSE {})

\* a finished run has exactly one outcome; a run waits at most RetryTimes
\* times and makes one attempt at most when RetryTimes <= 0
OneOutcomeBoundedWaits ==
    \A r \in runs :
        /\ pc[r] = "done" => Cardinality(OutcomesOf(r)) = 1
        /\ Len(Calls(r, "delay")) <= Max(Budget, 0)
        /\ waited[r] <= Max(Budget, 0) * MaxDelay
        /\ Budget <= 0 => NumCalls(r) <= 1

\* C19: provided every call made by Do returns and every delay elapses, every
\* run of Do returns, for every budget and whenever the context is
\* cancelled, with exactly one of the four outcomes and after at most
\* RetryTimes waits.
C19_Terminates ==
    /\ []OneOutcomeBoundedWaits
    /\ <>(\A r \in runs : pc[r] = "done")

C19_Witness ==
    \E r \in runs :
        /\ pc[r] = "done" /\ Budget = MaxTimes /\ BudgetExhausted(r)
        /\ Len(Calls(r, "delay")) = MaxTimes /\ waited[r] = MaxTimes * MaxDelay

----------------------------------------------------------------------------
\* The configuration of NewConfig() called with no option (lines 107-113)
NoOptions == [RetryTimes |-> 0, OnRetry |-> "nil", OnFailed |-> "nil",
              DelayStrategy |-> [kind |-> "nil", a |-> 0]]

\* the defaults of lines 129-139 have been installed for run r
PastDefaults(r) == pc[r] \in {"loop", "infn", "select", "parked"}

\* C20: with a Config built from no option and an operation whose call fails,
\* Do calls the operation once, waits for nothing, consults no delay
\* strategy, calls no retry observer and returns the error of that call (the
\* wrapped error when it came from Break).  With any budget, an unset observer
\* is replaced by a no-op and an unset strategy makes every delay zero.
C20_Defaults ==
    \A r \in runs :
        /\ (config0 = NoOptions /\ pc[r] = "done" /\ results[r] # <<>>
                /\ results[r][1] # NilErr)
           => /\ Len(results[r]) = 1
              /\ Len(Calls(r, "fn")) = 1
              /\ waited[r] = 0
              /\ Calls(r, "delay") = <<>>
              /\ Calls(r, "onRetry") = <<>>
              /\ ret[r] = [brk |-> Max(results[r][1].brk - 1, 0),
                           base |-> results[r][1].base]
        /\ (config0.OnRetry = "nil" /\ PastDefaults(r)) => config.OnRetry = "noop"
        /\ (config0.OnFailed = "nil" /\ PastDefaults(r)) => config.OnFailed = "noop"
        /\ config0.DelayStrategy = [kind |-> "nil", a |-> 0]
           => /\ \A i \in 1..Len(trace[r]) :
                    trace[r][i].ev = "delay" => trace[r][i].d = 0
              /\ waited[r] = 0

C20_Witness ==
    \E r \in runs :
        /\ config0 = NoOptions /\ pc[r] = "done"
        /\ results[r] = <<[brk |-> 0, base |-> "e1"]>>
        /\ ret[r] = [brk |-> 0, base |-> "e1"] /\ retLine[r] = 165

\* an unset strategy with a positive budget: a retry after a zero delay
C20_ZeroDelayWitness ==
    \E r \in runs :
        /\ config0.DelayStrategy = [kind |-> "nil", a |-> 0] /\ config0.OnRetry = "nil"
        /\ pc[r] = "done" /\ Len(Calls(r, "delay")) = MaxTimes
        /\ Len(Calls(r, "onRetry")) = MaxTimes

====
